---- MODULE Spec2Model ----
(***************************************************************************)
(* Model of lh2gh.py: conversion of a Lighthouse export (tickets,          *)
(* milestones) into the GitHub import format.                              *)
(*                                                                         *)
(* Texts (bodies, comments) are sequences of tokens.  A token is either a  *)
(* single character that one of the script's regular expressions looks at  *)
(* ("#", a decimal digit, "@", a blank, a line terminator) or an opaque    *)
(* word, which behaves as one ordinary character for every regular         *)
(* expression of the script.                                               *)
(***************************************************************************)
EXTENDS Integers, Sequences, FiniteSets, TLC

VARIABLES
    opt,          \* the global options object (lh2gh.py:22)
    dirs,         \* directories the run has created under DESTDIR
    lhms,         \* source milestones: milestone id -> record
    lhs,          \* source tickets: ticket id -> record
    ghms,         \* converted milestones: source id -> record
    ghs,          \* converted tickets: destination id -> GithubTicket
    todo,         \* keys of lhs that convert_tickets has still to visit
    tosave,       \* keys of ghs / ghms the current save loop has still to visit
    saving,       \* key of the ticket save_ticket is in the middle of, or 0
    files,        \* files written under DESTDIR: name -> content
    pc,           \* position of main()
    exit_status,  \* process exit status, -1 while running
    text          \* the text a rewriting pass is applied to (SpecText)

vars == <<opt, dirs, lhms, lhs, ghms, ghs, todo, tosave, saving, files, pc,
          exit_status, text>>

(***************************************************************************)
(* Bounds                                                                  *)
(***************************************************************************)
MaxTicketId == 2
MaxMilestoneId == 3
MaxVersions == 3
MaxOffset == 2
MaxLen == 4

\* Python's None where the value is otherwise a name: no real name is this one
None == <<"<None>">>

(***************************************************************************)
(* Characters                                                              *)
(***************************************************************************)
DigitChars == <<"0", "1", "2", "3", "4", "5", "6", "7", "8", "9">>

IsDigit(c) == \E d \in 1..10 : DigitChars[d] = c

DigitValue(c) == (CHOOSE d \in 1..10 : DigitChars[d] = c) - 1

\* the grave accent, which the replacement of fix_code_blocks writes three
\* times (the character itself cannot be written in a string here)
Backquote == "<backquote>"

\* the class of blanks (the vertical tab, which is in it too, cannot be
\* written in a string here and is in no text of the model)
IsSpace(c) == c \in {" ", "\t", "\n", "\r", "\f"}

\* the class of line terminators of the group
IsLineEnd(c) == c \in {"\r", "\n"}

(* int(m.group(1)) *)
RECURSIVE ParseInt(_)
ParseInt(ds) ==
    IF ds = <<>> THEN 0
    ELSE 10 * ParseInt(SubSeq(ds, 1, Len(ds) - 1)) + DigitValue(ds[Len(ds)])

(* '%d' % n *)
RECURSIVE FormatNat(_)
FormatNat(n) ==
    IF n < 10 THEN <<DigitChars[n + 1]>>
    ELSE FormatNat(n \div 10) \o <<DigitChars[(n % 10) + 1]>>

FormatInt(n) == IF n < 0 THEN <<"-">> \o FormatNat(0 - n) ELSE FormatNat(n)

(***************************************************************************)
(* map_ticket_id, fix_tickets_numbers, fix_code_blocks                     *)
(***************************************************************************)
MapTicketIdBelow(n) ==
    IF ~opt.remap_set THEN n
    ELSE IF n < opt.remap_until THEN n + opt.remap_offset ELSE n

map_ticket_id(n) ==
    IF ~opt.remap_set THEN n
    ELSE IF n <= opt.remap_until THEN n + opt.remap_offset ELSE n

(* last index of the run of digits that starts at i *)
RECURSIVE DigitsEnd(_, _)
DigitsEnd(s, i) ==
    IF i < Len(s) /\ IsDigit(s[i + 1]) THEN DigitsEnd(s, i + 1) ELSE i

RECURSIVE SubTicketNumbers(_, _)
SubTicketNumbers(s, i) ==
    IF i > Len(s) THEN <<>>
    ELSE IF s[i] = "#" /\ i < Len(s) /\ IsDigit(s[i + 1])
         THEN LET j == DigitsEnd(s, i + 1)
              IN  <<"#">> \o FormatInt(map_ticket_id(ParseInt(SubSeq(s, i + 1, j))))
                          \o SubTicketNumbers(s, j + 1)
         ELSE <<s[i]>> \o SubTicketNumbers(s, i + 1)

FixTicketsNumbersFirstDigit(s) ==
    LET RECURSIVE Sub(_)
        Sub(i) ==
            IF i > Len(s) THEN <<>>
            ELSE IF s[i] = "#" /\ i < Len(s) /\ IsDigit(s[i + 1])
                 THEN <<"#">> \o FormatInt(map_ticket_id(ParseInt(<<s[i + 1]>>)))
                              \o Sub(i + 2)
                 ELSE <<s[i]>> \o Sub(i + 1)
    IN  Sub(1)

fix_tickets_numbers(s) == SubTicketNumbers(s, 1)

(* ^ and $ under (?m) *)
AtLineStart(s, i) == i = 1 \/ s[i - 1] = "\n"
AtLineEnd(s, k) == k = Len(s) + 1 \/ s[k] = "\n"

\* The ways the pattern of fix_code_blocks matches at i: <<j, k>> where the
\* run of blanks ends before j, the group is s[j..k-1] and the match ends
\* before k.
FenceMatches(s, i) ==
    IF ~(AtLineStart(s, i) /\ i + 2 <= Len(s)
         /\ s[i] = "@" /\ s[i + 1] = "@" /\ s[i + 2] = "@")
    THEN {}
    ELSE {jk \in ((i + 3)..(Len(s) + 1)) \X ((i + 3)..(Len(s) + 1)) :
            /\ jk[1] <= jk[2]
            /\ \A x \in (i + 3)..(jk[1] - 1) : IsSpace(s[x])
            /\ \A x \in jk[1]..(jk[2] - 1) : IsLineEnd(s[x])
            /\ AtLineEnd(s, jk[2])}

(* the match a backtracking matcher finds first: both stars are greedy *)
FirstFenceMatch(s, i) ==
    LET ms == FenceMatches(s, i)
        j  == CHOOSE j \in {m[1] : m \in ms} : \A m \in ms : m[1] <= j
        k  == CHOOSE k \in {m[2] : m \in {n \in ms : n[1] = j}} :
                  \A m \in {n \in ms : n[1] = j} : m[2] <= k
    IN  <<j, k>>

RECURSIVE SubCodeBlocks(_, _)
SubCodeBlocks(s, i) ==
    IF i > Len(s) THEN <<>>
    ELSE IF FenceMatches(s, i) # {}
         THEN LET m == FirstFenceMatch(s, i)
              IN  <<Backquote, Backquote, Backquote>> \o SubSeq(s, m[1], m[2] - 1)
                                    \o SubCodeBlocks(s, m[2])
         ELSE <<s[i]>> \o SubCodeBlocks(s, i + 1)

fix_code_blocks(s) == SubCodeBlocks(s, 1)

(***************************************************************************)
(* map_user                                                                *)
(***************************************************************************)
\* opt.usermap.get(name, opt.fallback_user or name)
map_user(name) ==
    IF name \in DOMAIN opt.usermap THEN opt.usermap[name]
    ELSE IF opt.fallback_user # None THEN opt.fallback_user ELSE name

(***************************************************************************)
(* convert_milestones, convert_milestone                                   *)
(***************************************************************************)
\* sorted(lhms.iteritems()): the keys are distinct, so the pairs sort by key
RECURSIVE SortedKeys(_)
SortedKeys(S) ==
    IF S = {} THEN <<>>
    ELSE LET m == CHOOSE x \in S : \A y \in S : x <= y
         IN  <<m>> \o SortedKeys(S \ {m})

convert_milestone(lhm, number) ==
    LET ghm == [number      |-> number,
                state       |-> IF lhm.open_tickets_count # 0 THEN "open" ELSE "closed",
                title       |-> lhm.title,
                description |-> lhm.goals,
                created_at  |-> lhm.created_at]
    IN  IF lhm.due_on # 0 THEN ghm @@ [due_on |-> lhm.due_on] ELSE ghm

ConvertMilestonesBySourceId(ms) ==
    [n \in DOMAIN ms |-> convert_milestone(ms[n], n)]

\* zip(count(1), sorted(...)): the i-th pair in sorted order gets number i
convert_milestones(ms) ==
    LET keys == SortedKeys(DOMAIN ms)
    IN  [n \in DOMAIN ms |->
            convert_milestone(ms[n], CHOOSE i \in 1..Len(keys) : keys[i] = n)]

(***************************************************************************)
(* convert_ticket, convert_comment                                         *)
(***************************************************************************)
SubmittedBy == "Submitted by:"
SubmittedByNotice == "Originally submitted by: "
SubmittedAsNotice == "Originally submitted as number "
TicketUrl == " - http://psycopg.lighthouseapp.com/projects/62710/tickets/"

\* The ways  ^Submitted by:\s+([^\n]+)\n\n(.*)  matches under (?s): <<i, j>>
\* where the blanks are body[2..i] and the first group is body[i+1..j].
HeaderMatches(body) ==
    IF body = <<>> \/ body[1] # SubmittedBy THEN {}
    ELSE {ij \in (2..Len(body)) \X (3..Len(body)) :
            /\ ij[1] < ij[2]
            /\ ij[2] + 2 <= Len(body)
            /\ \A x \in 2..ij[1] : IsSpace(body[x])
            /\ \A x \in (ij[1] + 1)..ij[2] : body[x] # "\n"
            /\ body[ij[2] + 1] = "\n"
            /\ body[ij[2] + 2] = "\n"}

\* the run of blanks is greedy; given its end, the end of the line is fixed
FirstHeaderMatch(body) ==
    LET ms == HeaderMatches(body)
    IN  CHOOSE m \in ms : \A o \in ms : o[1] <= m[1]

\* str.lstrip()
RECURSIVE LStrip(_)
LStrip(s) ==
    IF s # <<>> /\ IsSpace(s[1]) THEN LStrip(Tail(s)) ELSE s

\* '\n\n'.join(parts)
RECURSIVE Join(_)
Join(parts) ==
    IF parts = <<>> THEN <<>>
    ELSE IF Len(parts) = 1 THEN parts[1]
    ELSE parts[1] \o <<"\n", "\n">> \o Join(Tail(parts))

\* 'word' in (lh['tag'] or ''): the tag is a sequence of opaque words, and
\* TagWords says which of the words looked for each of them contains
TagWords(w) ==
    IF w = "feature" THEN {"feature"}
    ELSE IF w = "question" THEN {"question"}
    ELSE IF w = "featurequestion" THEN {"feature", "question"}
    ELSE {}

InTag(word, tag) == \E i \in 1..Len(tag) : word \in TagWords(tag[i])

StateLabel(state) ==
    IF state = "open" THEN <<"confirmed">>
    ELSE IF state = "hold" THEN <<"hold">>
    ELSE IF state = "invalid" THEN <<"invalid">>
    ELSE <<>>

\* lines 161-163: the loop assigns on every closed version and never leaves
RECURSIVE ClosedAtLoop(_, _, _)
ClosedAtLoop(gh, versions, i) ==
    IF i > Len(versions) THEN gh
    ELSE IF versions[i].closed
         THEN ClosedAtLoop([closed_at |-> versions[i].created_at] @@ gh, versions, i + 1)
         ELSE ClosedAtLoop(gh, versions, i + 1)

convert_comment(ver) ==
    LET body == fix_code_blocks(fix_tickets_numbers(ver.body))
        user == map_user(ver.user_name)
    IN  [body       |-> IF user = opt.fallback_user
                        THEN <<SubmittedByNotice>> \o ver.user_name \o <<"\n", "\n">> \o body
                        ELSE body,
         user       |-> user,
         created_at |-> ver.created_at,
         updated_at |-> ver.updated_at]

\* lines 165-167
RECURSIVE CommentsLoop(_, _)
CommentsLoop(versions, i) ==
    IF i > Len(versions) THEN <<>>
    ELSE IF versions[i].body # <<>>
         THEN <<convert_comment(versions[i])>> \o CommentsLoop(versions, i + 1)
         ELSE CommentsLoop(versions, i + 1)

IsSpamNever(lh) == FALSE

\* line 91: the ticket is skipped (convert_ticket returns None)
IsSpam(lh) == lh.spam

\* line 136 raises KeyError
RaisesKeyError(lh, milestones) ==
    lh.milestone_id # 0 /\ lh.milestone_id \notin DOMAIN milestones

\* lines 101-108: the author of the ticket
TicketAuthor(lh) ==
    IF HeaderMatches(lh.latest_body) # {}
    THEN LET m == FirstHeaderMatch(lh.latest_body)
         IN  SubSeq(lh.latest_body, m[1] + 1, m[2])
    ELSE lh.creator_name

\* lines 96-169, for a ticket that is not spam and whose milestone resolves
convert_ticket(lh, milestones) ==
    LET number   == map_ticket_id(lh.number)
        matched  == HeaderMatches(lh.latest_body) # {}
        m        == FirstHeaderMatch(lh.latest_body)
        author   == TicketAuthor(lh)
        body     == IF matched
                    THEN LStrip(SubSeq(lh.latest_body, m[2] + 3, Len(lh.latest_body)))
                    ELSE lh.latest_body
        user     == map_user(author)
        parts    ==    (IF user = opt.fallback_user
                        THEN <<<<SubmittedByNotice>> \o author>> ELSE <<>>)
                    \o (IF lh.number # number
                        THEN <<<<SubmittedAsNotice>> \o FormatInt(lh.number)
                               \o <<TicketUrl>> \o FormatInt(lh.number)>>
                        ELSE <<>>)
                    \o <<body>>
        gh0      == [number     |-> number,
                     body       |-> fix_code_blocks(fix_tickets_numbers(Join(parts))),
                     title      |-> lh.title,
                     created_at |-> lh.created_at,
                     updated_at |-> lh.updated_at,
                     user       |-> user,
                     state      |-> IF lh.closed THEN "closed" ELSE "open",
                     labels     |->    StateLabel(lh.state)
                                    \o (IF InTag("feature", lh.tag)
                                        THEN <<"enhancement">> ELSE <<>>)
                                    \o (IF InTag("question", lh.tag)
                                        THEN <<"question">> ELSE <<>>)]
        gh1      == IF lh.has_assigned_user_name
                    THEN [assignee |-> map_user(lh.assigned_user_name)] @@ gh0
                    ELSE gh0
        gh2      == IF lh.milestone_id # 0
                    THEN [milestone |-> milestones[lh.milestone_id].number] @@ gh1
                    ELSE gh1
    IN  [ticket   |-> ClosedAtLoop(gh2, lh.versions, 1),
         comments |-> CommentsLoop(lh.versions, 2)]

(***************************************************************************)
(* File names under DESTDIR                                                *)
(***************************************************************************)
TicketFile(number) == <<"issues", number, "json">>
CommentsFile(number) == <<"issues", number, "comments.json">>
MilestoneFile(number) == <<"milestones", number, "json">>

Write(fs, name, content) == (name :> content) @@ fs

(***************************************************************************)
(* main                                                                    *)
(***************************************************************************)
\* check_dest: DESTDIR holds nothing, or ScriptError (lines 283-285)
CheckDest ==
    /\ pc = "check_dest"
    /\ IF DOMAIN files = {}
       THEN pc' = "convert_milestones" /\ exit_status' = exit_status
       ELSE pc' = "script_error" /\ exit_status' = 1
    /\ UNCHANGED <<opt, dirs, lhms, lhs, ghms, ghs, todo, tosave, saving, files, text>>

\* lines 30-31
ConvertMilestones ==
    /\ pc = "convert_milestones"
    /\ ghms' = convert_milestones(lhms)
    /\ pc' = "convert_tickets"
    /\ todo' = DOMAIN lhs
    /\ UNCHANGED <<opt, dirs, lhms, lhs, ghs, tosave, saving, files, exit_status, text>>

\* the step with the KeyError of line 136 swallowed: the ticket is dropped
ConvertTicketsStepSwallow ==
    /\ pc = "convert_tickets"
    /\ \E n \in todo :
        IF IsSpam(lhs[n]) \/ RaisesKeyError(lhs[n], ghms)
        THEN /\ todo' = todo \ {n}
             /\ UNCHANGED <<ghs, pc, exit_status>>
        ELSE /\ ghs' = (map_ticket_id(n) :> convert_ticket(lhs[n], ghms)) @@ ghs
             /\ todo' = todo \ {n}
             /\ UNCHANGED <<pc, exit_status>>
    /\ UNCHANGED <<opt, dirs, lhms, lhs, ghms, tosave, saving, files, text>>

\* one iteration of the loop of convert_tickets, in the dictionary's order;
\* an exception leaves main and is caught at lines 287-289
ConvertTicketsStep ==
    /\ pc = "convert_tickets"
    /\ \E n \in todo :
        IF IsSpam(lhs[n])
        THEN /\ todo' = todo \ {n}
             /\ UNCHANGED <<ghs, pc, exit_status>>
        ELSE IF RaisesKeyError(lhs[n], ghms)
        THEN /\ pc' = "unexpected_error"
             /\ exit_status' = 1
             /\ UNCHANGED <<ghs, todo>>
        ELSE /\ ghs' = (map_ticket_id(n) :> convert_ticket(lhs[n], ghms)) @@ ghs
             /\ todo' = todo \ {n}
             /\ UNCHANGED <<pc, exit_status>>
    /\ UNCHANGED <<opt, dirs, lhms, lhs, ghms, tosave, saving, files, text>>

\* save_tickets, lines 183-185
SaveTicketsBegin ==
    /\ pc = "convert_tickets"
    /\ todo = {}
    /\ pc' = "save_tickets"
    /\ dirs' = dirs \cup {"issues"}
    /\ tosave' = DOMAIN ghs
    /\ UNCHANGED <<opt, lhms, lhs, ghms, ghs, todo, saving, files, exit_status, text>>

\* save_ticket with its two blocks exchanged
SaveTicketCommentsFirst ==
    /\ pc = "save_tickets"
    /\ \/ /\ saving = 0
          /\ \E k \in tosave :
              IF ghs[k].comments # <<>>
              THEN /\ files' = Write(files, CommentsFile(ghs[k].ticket.number),
                                     ghs[k].comments)
                   /\ saving' = k
                   /\ tosave' = tosave
              ELSE /\ files' = Write(files, TicketFile(ghs[k].ticket.number),
                                     ghs[k].ticket)
                   /\ saving' = 0
                   /\ tosave' = tosave \ {k}
       \/ /\ saving # 0
          /\ files' = Write(files, TicketFile(ghs[saving].ticket.number),
                            ghs[saving].ticket)
          /\ tosave' = tosave \ {saving}
          /\ saving' = 0
    /\ UNCHANGED <<opt, dirs, lhms, lhs, ghms, ghs, todo, pc, exit_status, text>>

\* save_ticket, lines 190-194
SaveTicketFile ==
    /\ pc = "save_tickets"
    /\ saving = 0
    /\ \E k \in tosave :
        /\ files' = Write(files, TicketFile(ghs[k].ticket.number), ghs[k].ticket)
        /\ IF ghs[k].comments # <<>>
           THEN saving' = k /\ tosave' = tosave
           ELSE saving' = 0 /\ tosave' = tosave \ {k}
    /\ UNCHANGED <<opt, dirs, lhms, lhs, ghms, ghs, todo, pc, exit_status, text>>

\* save_ticket, lines 196-199
SaveTicketComments ==
    /\ pc = "save_tickets"
    /\ saving # 0
    /\ files' = Write(files, CommentsFile(ghs[saving].ticket.number), ghs[saving].comments)
    /\ tosave' = tosave \ {saving}
    /\ saving' = 0
    /\ UNCHANGED <<opt, dirs, lhms, lhs, ghms, ghs, todo, pc, exit_status, text>>

save_ticket == SaveTicketFile \/ SaveTicketComments

\* save_milestones, lines 232-234
SaveMilestonesBegin ==
    /\ pc = "save_tickets"
    /\ saving = 0
    /\ tosave = {}
    /\ pc' = "save_milestones"
    /\ dirs' = dirs \cup {"milestones"}
    /\ tosave' = DOMAIN ghms
    /\ UNCHANGED <<opt, lhms, lhs, ghms, ghs, todo, saving, files, exit_status, text>>

\* save_milestone
SaveMilestone ==
    /\ pc = "save_milestones"
    /\ \E k \in tosave :
        /\ files' = Write(files, MilestoneFile(ghms[k].number), ghms[k])
        /\ tosave' = tosave \ {k}
    /\ UNCHANGED <<opt, dirs, lhms, lhs, ghms, ghs, todo, saving, pc, exit_status, text>>

\* main returns None and sys.exit(None) exits with status 0
Exit ==
    /\ pc = "save_milestones"
    /\ tosave = {}
    /\ pc' = "done"
    /\ exit_status' = 0
    /\ UNCHANGED <<opt, dirs, lhms, lhs, ghms, ghs, todo, tosave, saving, files, text>>

Next ==
    \/ CheckDest
    \/ ConvertMilestones
    \/ ConvertTicketsStep
    \/ SaveTicketsBegin
    \/ save_ticket
    \/ SaveMilestonesBegin
    \/ SaveMilestone
    \/ Exit

(***************************************************************************)
(* The exported data and the options the runs start from                   *)
(***************************************************************************)
Alice == <<"alice">>
Bob == <<"bob">>
Al == <<"al">>
Ghost == <<"ghost">>

\* parse_cmdline: --remap-until and --remap-offset come together or not at
\* all; the loop of line 271 needs at least one --map-user, so usermap is
\* never empty in a run that gets to main's second line
Opt(remap, usermap, fallback) ==
    [remap_set     |-> remap[1],
     remap_until   |-> remap[2],
     remap_offset  |-> remap[3],
     usermap       |-> usermap,
     fallback_user |-> fallback]

NoRemap == <<FALSE, 0, 0>>
Remaps(untils, offsets) ==
    {NoRemap} \cup {<<TRUE, u, o>> : u \in untils, o \in offsets}

\* titles and timestamps are opaque values; the model numbers them
Milestone(n, due_on, open_tickets_count) ==
    [title              |-> n,
     goals              |-> n,
     created_at         |-> n,
     due_on             |-> due_on,
     open_tickets_count |-> open_tickets_count]

Version(n, i, closed, user_name, body) ==
    [user_name  |-> user_name,
     body       |-> body,
     created_at |-> 10 * n + i,
     updated_at |-> 10 * n + i,
     closed     |-> closed]

Ticket(n) ==
    [number                 |-> n,
     title                  |-> n,
     latest_body            |-> <<"text">>,
     creator_name           |-> Alice,
     created_at             |-> 10 * n,
     updated_at             |-> 10 * n + 9,
     closed                 |-> FALSE,
     spam                   |-> FALSE,
     milestone_id           |-> 0,
     has_assigned_user_name |-> FALSE,
     assigned_user_name     |-> None,
     state                  |-> "new",
     tag                    |-> <<>>,
     versions               |-> <<Version(n, 0, FALSE, Alice, <<"text">>)>>]

Reply(n) == Version(n, 1, FALSE, Bob, <<"reply">>)

\* the directory of ticket n is named after its number (line 76)
WellKeyed(m) == \A n \in DOMAIN m : m[n].number = n

\* every map from a set of tickets among 1..MaxTicketId to the tickets that
\* shapes[n] allows for n
TicketMaps(shapes) ==
    LET all == UNION {[S -> UNION {shapes[n] : n \in S}] : S \in SUBSET (1..MaxTicketId)}
    IN  {m \in all : WellKeyed(m)}

\* a file some earlier run left under DESTDIR
Stray == (CommentsFile(1) :> <<>>)
NoFiles == [x \in {} |-> <<>>]

InitRun(Opts, MilestoneMaps, Tickets, Files) ==
    /\ opt \in Opts
    /\ lhms \in MilestoneMaps
    /\ lhs \in Tickets
    /\ files \in Files
    /\ dirs = {}
    /\ ghms = <<>>
    /\ ghs = <<>>
    /\ todo = {}
    /\ tosave = {}
    /\ saving = 0
    /\ pc = "check_dest"
    /\ exit_status = -1
    /\ text = <<>>

(***************************************************************************)
(* Spec: whole runs over tickets that are spam or not, refer to a          *)
(* milestone or not, and have a comment or not                             *)
(***************************************************************************)
RunMilestoneMaps == {<<>>, (2 :> Milestone(2, 0, 1))}
RunMilestoneRefs == {0, 1, 2}

RunShapes(n) ==
    {[Ticket(n) EXCEPT !.spam = sp, !.milestone_id = ms, !.versions = @ \o vs] :
        sp \in BOOLEAN, ms \in RunMilestoneRefs, vs \in {<<>>, <<Reply(n)>>}}

Init ==
    InitRun({Opt(r, (Alice :> Al), Ghost) : r \in Remaps({1}, {1})},
            RunMilestoneMaps,
            TicketMaps([n \in 1..MaxTicketId |-> RunShapes(n)]),
            {NoFiles, Stray})

Spec == Init /\ [][Next]_vars

(***************************************************************************)
(* SpecIds: whole runs under every remap of the ticket numbers             *)
(***************************************************************************)
IdShapes(n) ==
    {[Ticket(n) EXCEPT !.spam = sp, !.milestone_id = ms, !.versions = @ \o <<Reply(n)>>] :
        sp \in BOOLEAN, ms \in {0, 1, 2}}

InitIds ==
    InitRun({Opt(r, (Alice :> Al), Ghost) :
                r \in Remaps(1..MaxTicketId, 0..MaxOffset)},
            {(1 :> Milestone(1, 0, 1))},
            TicketMaps([n \in 1..MaxTicketId |-> IdShapes(n)]),
            {NoFiles, Stray})

SpecIds == InitIds /\ [][Next]_vars

(***************************************************************************)
(* SpecMilestones: whole runs over every set of milestones                 *)
(***************************************************************************)
MilestoneMaps ==
    UNION {[S -> UNION {{Milestone(n, due, open) : due \in {0, n}, open \in {0, 1}} :
                        n \in S}] :
           S \in SUBSET (1..MaxMilestoneId)}

InitMilestones ==
    InitRun({Opt(NoRemap, (Alice :> Al), Ghost)},
            {m \in MilestoneMaps : \A n \in DOMAIN m : m[n].title = n},
            {<<>>} \cup {(1 :> [Ticket(1) EXCEPT !.milestone_id = ms,
                                                !.versions = @ \o <<Reply(1)>>]) :
                         ms \in 1..MaxMilestoneId},
            {NoFiles, Stray})

SpecMilestones == InitMilestones /\ [][Next]_vars

(***************************************************************************)
(* SpecTicket: runs over one ticket, with every history of at most         *)
(* MaxVersions versions, every author and every mapping of the users       *)
(***************************************************************************)
RECURSIVE Histories(_, _)
Histories(n, len) ==
    IF len = 0 THEN {<<>>}
    ELSE {h \o <<Version(n, len - 1, cl, ub[1], ub[2])>> :
            h \in Histories(n, len - 1),
            cl \in BOOLEAN,
            ub \in {<<Alice, <<>>>>, <<Alice, <<"more">>>>, <<Bob, <<"see", "#", "1">>>>}}

TicketBodies ==
    {<<"text">>,
     <<SubmittedBy, " ", "bob", "\n", "\n", " ", "text">>,
     <<SubmittedBy, " ", "alice", "\n", "\n", "text">>}

TicketShapes(n) ==
    {[Ticket(n) EXCEPT !.latest_body = body,
                       !.creator_name = creator,
                       !.closed = h[Len(h)].closed,
                       !.has_assigned_user_name = st[1],
                       !.assigned_user_name = Bob,
                       !.milestone_id = st[2],
                       !.state = st[3],
                       !.tag = st[4],
                       !.versions = h] :
        body \in TicketBodies,
        creator \in {Alice, Bob},
        st \in {<<FALSE, 0, "new", <<>>>>,
                <<TRUE, 1, "hold", <<"feature">>>>,
                <<TRUE, 2, "open", <<"bug", "featurequestion">>>>},
        h \in UNION {Histories(n, len) : len \in 1..MaxVersions}}

InitTicket ==
    InitRun({Opt(r, (Alice :> u), f) :
                r \in Remaps({1}, {1}), u \in {Al, Ghost}, f \in {None, Ghost}},
            {(1 :> Milestone(1, 0, 1))},
            {(1 :> t) : t \in TicketShapes(1)},
            {NoFiles})
    \/ InitRun({Opt(NoRemap, (Alice :> Al), Ghost)}, {<<>>}, {<<>>}, {Stray})

SpecTicket == InitTicket /\ [][Next]_vars

(***************************************************************************)
(* SpecText: the two rewriting passes, in the order of lines 125 and 173,  *)
(* over every text of at most MaxLen characters                            *)
(***************************************************************************)
Alphabet == {"#", "0", "9", "@", "a", " ", "\n"}

Texts == UNION {[1..len -> Alphabet] : len \in 0..MaxLen}

InitText ==
    /\ opt \in {Opt(r, (Alice :> Al), Ghost) : r \in Remaps({9}, 0..MaxOffset)}
    /\ text \in {[stage |-> "source", source |-> t, numbered |-> <<>>, fenced |-> <<>>] :
                    t \in Texts}
    /\ lhms = <<>>
    /\ lhs = <<>>
    /\ files = NoFiles
    /\ dirs = {}
    /\ ghms = <<>>
    /\ ghs = <<>>
    /\ todo = {}
    /\ tosave = {}
    /\ saving = 0
    /\ pc = "text"
    /\ exit_status = -1

ApplyFixTicketsNumbers ==
    /\ pc = "text"
    /\ text.stage = "source"
    /\ text' = [text EXCEPT !.stage = "numbered",
                            !.numbered = fix_tickets_numbers(text.source)]
    /\ UNCHANGED <<opt, dirs, lhms, lhs, ghms, ghs, todo, tosave, saving, files, pc,
                   exit_status>>

ApplyFixCodeBlocks ==
    /\ pc = "text"
    /\ text.stage = "numbered"
    /\ text' = [text EXCEPT !.stage = "fenced",
                            !.fenced = fix_code_blocks(text.numbered)]
    /\ UNCHANGED <<opt, dirs, lhms, lhs, ghms, ghs, todo, tosave, saving, files, pc,
                   exit_status>>

NextText == ApplyFixTicketsNumbers \/ ApplyFixCodeBlocks

SpecText == InitText /\ [][NextText]_vars

(***************************************************************************)
(* Properties                                                              *)
(***************************************************************************)
\* the source ticket a destination ticket was made from: the title is copied
\* verbatim and the model's titles are the source numbers
SourceOf(gh) == lhs[gh.title]

NonSpam == {n \in DOMAIN lhs : ~lhs[n].spam}

Converted == pc \in {"save_tickets", "save_milestones", "done"}

IsTicketFile(f) == f[1] = "issues" /\ f[3] = "json"
IsCommentsFile(f) == f[1] = "issues" /\ f[3] = "comments.json"
IsMilestoneFile(f) == f[1] = "milestones"

\* the remap as section 8 of the specification states it
ExpectedId(n) ==
    IF opt.remap_set /\ n <= opt.remap_until THEN n + opt.remap_offset ELSE n

\* a non-spam ticket whose milestone is not among the source milestones
DanglingMilestone(n) ==
    /\ ~lhs[n].spam
    /\ lhs[n].milestone_id # 0
    /\ lhs[n].milestone_id \notin DOMAIN lhms

\* C1: once convert_tickets has returned, the destination tickets have
\* pairwise distinct numbers and there is exactly one of them for each
\* non-spam source ticket.
C1_DestinationIdsDistinct ==
    Converted =>
        /\ \A a, b \in DOMAIN ghs :
              a # b => ghs[a].ticket.number # ghs[b].ticket.number
        /\ \A n \in NonSpam :
              \E k \in DOMAIN ghs : ghs[k].ticket.title = lhs[n].title
        /\ Cardinality(DOMAIN ghs) = Cardinality(NonSpam)

FirstClosed(versions) ==
    CHOOSE i \in 1..Len(versions) :
        versions[i].closed /\ \A j \in 1..(i - 1) : ~versions[j].closed

\* C2: a converted ticket has closed_at exactly when some version of the
\* source ticket is closed, and closed_at is then the created-timestamp of
\* the first closed version.
C2_ClosedAtIsFirstClosedVersion ==
    \A k \in DOMAIN ghs :
        LET versions == SourceOf(ghs[k].ticket).versions
        IN  IF \E i \in 1..Len(versions) : versions[i].closed
            THEN /\ "closed_at" \in DOMAIN ghs[k].ticket
                 /\ ghs[k].ticket.closed_at = versions[FirstClosed(versions)].created_at
            ELSE "closed_at" \notin DOMAIN ghs[k].ticket

\* C3: map_ticket_id(n) is n + offset for n <= threshold and n otherwise (n
\* when no threshold is configured), and every destination ticket, in memory
\* and on disk, carries map_ticket_id of its source number.
C3_TicketNumberIsRemap ==
    /\ \A n \in 0..(MaxTicketId + MaxOffset + 1) : map_ticket_id(n) = ExpectedId(n)
    /\ \A k \in DOMAIN ghs :
          /\ ghs[k].ticket.number = ExpectedId(SourceOf(ghs[k].ticket).number)
          /\ k = ghs[k].ticket.number
    /\ pc \notin {"check_dest", "script_error"} =>
          \A f \in DOMAIN files :
              IsTicketFile(f) => f[2] = ExpectedId(SourceOf(files[f]).number)

C3_Witness ==
    /\ pc = "done"
    /\ opt.remap_set
    /\ opt.remap_offset > 0
    /\ \E f \in DOMAIN files :
          IsTicketFile(f) /\ f[2] # files[f].title /\ files[f].title <= opt.remap_until
    /\ \E f \in DOMAIN files :
          IsTicketFile(f) /\ f[2] = files[f].title /\ files[f].title > opt.remap_until

\* the cross-references of a text: a "#" with a digit after it starts one,
\* and it runs to the end of the digits
RefStarts(t) == {i \in 1..(Len(t) - 1) : t[i] = "#" /\ IsDigit(t[i + 1])}

RefEnd(t, i) ==
    CHOOSE j \in (i + 1)..Len(t) :
        /\ \A x \in (i + 1)..j : IsDigit(t[x])
        /\ j = Len(t) \/ ~IsDigit(t[j + 1])

InRef(t, x) == \E i \in RefStarts(t) : i < x /\ x <= RefEnd(t, i)

\* the members of a set of positions, smallest first
RECURSIVE Ascending(_)
Ascending(S) ==
    IF S = {} THEN <<>>
    ELSE LET last == CHOOSE x \in S : \A y \in S : y <= x
         IN  Ascending(S \ {last}) \o <<last>>

\* the numbers the cross-references of t name, in order
RefValues(t) ==
    LET starts == Ascending(RefStarts(t))
    IN  [r \in 1..Len(starts) |->
            ParseInt(SubSeq(t, starts[r] + 1, RefEnd(t, starts[r])))]

\* t with the digits of every cross-reference taken out
Residue(t) ==
    LET keep == Ascending({x \in 1..Len(t) : ~InRef(t, x)})
    IN  [r \in 1..Len(keep) |-> t[keep[r]]]

\* C4: the cross-reference pass replaces the number n of every "#n" by the
\* decimal form of map_ticket_id(n) and changes no other character, and the
\* code-fence pass that follows leaves the cross-references as they are.
C4_CrossReferencesRemapped ==
    /\ text.stage # "source" =>
          /\ Residue(text.numbered) = Residue(text.source)
          /\ RefValues(text.numbered) =
                [r \in 1..Len(RefValues(text.source)) |->
                    ExpectedId(RefValues(text.source)[r])]
          /\ \A i \in RefStarts(text.numbered) :
                text.numbered[i + 1] # "0" \/ RefEnd(text.numbered, i) = i + 1
    /\ text.stage = "fenced" => RefValues(text.fenced) = RefValues(text.numbered)

C4_Witness ==
    /\ text.stage = "fenced"
    /\ opt.remap_set
    /\ opt.remap_offset > 0
    /\ \E r \in 1..Len(RefValues(text.source)) :
          RefValues(text.source)[r] <= opt.remap_until
    /\ \E x \in 1..Len(text.source) :
          IsDigit(text.source[x]) /\ ~InRef(text.source, x)
    /\ text.numbered # text.source

\* C5: the destination milestones are numbered 1..N, increasing with the
\* source identifier, and a ticket's milestone is the number of the
\* destination milestone found under the ticket's source milestone id.
C5_MilestoneNumbersDense ==
    pc \notin {"check_dest", "convert_milestones", "script_error"} =>
        /\ DOMAIN ghms = DOMAIN lhms
        /\ {ghms[n].number : n \in DOMAIN ghms} = 1..Cardinality(DOMAIN lhms)
        /\ \A a, b \in DOMAIN ghms : a < b => ghms[a].number < ghms[b].number
        /\ \A k \in DOMAIN ghs :
              ghs[k].ticket.milestone =
                  Cardinality({m \in DOMAIN lhms :
                                  m <= SourceOf(ghs[k].ticket).milestone_id})
        /\ \A f \in DOMAIN files :
              IsMilestoneFile(f) =>
                  f[2] = Cardinality({m \in DOMAIN lhms : m <= files[f].title})

C5_Witness ==
    /\ pc = "done"
    /\ Cardinality(DOMAIN lhms) >= 2
    /\ \E n \in DOMAIN ghms : ghms[n].number # n
    /\ \E k \in DOMAIN ghs : ghs[k].ticket.milestone # SourceOf(ghs[k].ticket).milestone_id

\* the created-timestamps of the versions of source ticket n
VersionStamps(n) == {lhs[n].versions[i].created_at : i \in 1..Len(lhs[n].versions)}

\* C6: a spam ticket is never in the converted set, no issue file and no
\* comment on disk comes from it, and the run never fails on it: when the
\* run dies of an unexpected error a non-spam ticket has a dangling
\* milestone.
C6_SpamYieldsNothing ==
    /\ \A n \in DOMAIN lhs :
          lhs[n].spam =>
              /\ \A k \in DOMAIN ghs : ghs[k].ticket.title # lhs[n].title
              /\ \A f \in DOMAIN files :
                    /\ IsTicketFile(f) => files[f].title # lhs[n].title
                    /\ IsCommentsFile(f) =>
                          \A i \in 1..Len(files[f]) :
                              files[f][i].created_at \notin VersionStamps(n)
    /\ pc = "unexpected_error" => \E n \in DOMAIN lhs : DanglingMilestone(n)
    /\ Converted =>
          Cardinality(DOMAIN ghs) <= Cardinality(NonSpam)

C6_Witness ==
    /\ pc = "done"
    /\ exit_status = 0
    /\ \E n \in DOMAIN lhs :
          /\ lhs[n].spam
          /\ lhs[n].milestone_id # 0
          /\ lhs[n].milestone_id \notin DOMAIN lhms
          /\ Len(lhs[n].versions) > 1
    /\ \E f \in DOMAIN files : IsCommentsFile(f)

\* the notice of lines 114 and 176 at the head of a body
HasNotice(body, name) ==
    /\ Len(body) >= Len(name) + 3
    /\ body[1] = SubmittedByNotice
    /\ SubSeq(body, 2, Len(name) + 1) = name
    /\ body[Len(name) + 2] = "\n"
    /\ body[Len(name) + 3] = "\n"

ResolvedAsSpecified(name, user, body) ==
    /\ user = IF name \in DOMAIN opt.usermap THEN opt.usermap[name]
              ELSE opt.fallback_user
    /\ HasNotice(body, name) <=> name \notin DOMAIN opt.usermap

\* C7, where a fallback user is configured: the user of every converted
\* ticket and comment is the explicit mapping of the source name when there
\* is one and the fallback otherwise, and the body starts with the notice
\* exactly when the source name has no explicit mapping.
C7_NoticeIffFallback ==
    opt.fallback_user # None =>
        \A k \in DOMAIN ghs :
            /\ ResolvedAsSpecified(TicketAuthor(SourceOf(ghs[k].ticket)),
                                   ghs[k].ticket.user, ghs[k].ticket.body)
            /\ \A c \in 1..Len(ghs[k].comments) :
                  \E i \in 1..Len(SourceOf(ghs[k].ticket).versions) :
                      LET ver == SourceOf(ghs[k].ticket).versions[i]
                      IN  /\ ver.created_at = ghs[k].comments[c].created_at
                          /\ ResolvedAsSpecified(ver.user_name,
                                                 ghs[k].comments[c].user,
                                                 ghs[k].comments[c].body)

\* the lines of a text
RECURSIVE Lines(_)
Lines(t) ==
    IF \A x \in 1..Len(t) : t[x] # "\n" THEN <<t>>
    ELSE LET n == CHOOSE x \in 1..Len(t) :
                      t[x] = "\n" /\ \A y \in 1..(x - 1) : t[y] # "\n"
         IN  <<SubSeq(t, 1, n - 1)>> \o Lines(SubSeq(t, n + 1, Len(t)))

\* the sentinel followed by a language hint
IsFenceWithHint(line) ==
    /\ Len(line) > 3
    /\ line[1] = "@" /\ line[2] = "@" /\ line[3] = "@"
    /\ \A x \in 4..Len(line) : line[x] = "a"

\* C8: every line that is the sentinel followed by a language hint comes out
\* of fix_code_blocks as three grave accents followed by the same hint.
C8_FenceWithHintRewritten ==
    text.stage = "fenced" =>
        \A i \in 1..Len(Lines(text.numbered)) :
            IsFenceWithHint(Lines(text.numbered)[i]) =>
                /\ i <= Len(Lines(text.fenced))
                /\ Lines(text.fenced)[i] =
                      <<Backquote, Backquote, Backquote>>
                          \o SubSeq(Lines(text.numbered)[i], 4,
                                    Len(Lines(text.numbered)[i]))

\* C9: in a run that got past check_dest, a comments file is on disk only
\* when the ticket file of the same number is, and it holds the comments of
\* a converted ticket of that number that has some.
C9_CommentsFileHasTicketFile ==
    pc \notin {"check_dest", "script_error"} =>
        \A f \in DOMAIN files :
            IsCommentsFile(f) =>
                /\ TicketFile(f[2]) \in DOMAIN files
                /\ \E k \in DOMAIN ghs :
                      /\ ghs[k].ticket.number = f[2]
                      /\ ghs[k].comments # <<>>
                      /\ files[f] = ghs[k].comments
                      /\ files[TicketFile(f[2])] = ghs[k].ticket

C9_Witness ==
    /\ pc = "save_tickets"
    /\ tosave # {}
    /\ \E f \in DOMAIN files : IsCommentsFile(f)
    /\ \E f \in DOMAIN files : IsTicketFile(f) /\ CommentsFile(f[2]) \notin DOMAIN files

\* C10: with a non-spam ticket whose milestone is missing, the run never
\* gets to save anything and never exits with status 0: it is still before
\* that ticket, or it has failed with status 1, and it has written no file
\* and made no directory; and in any run that gets to save, the milestone of
\* every destination ticket is the number of a destination milestone.
C10_DanglingMilestoneIsFatal ==
    /\ (\E n \in DOMAIN lhs : DanglingMilestone(n)) =>
          /\ pc \in {"check_dest", "convert_milestones", "convert_tickets",
                     "script_error", "unexpected_error"}
          /\ exit_status # 0
          /\ pc = "convert_tickets" => \E n \in todo : DanglingMilestone(n)
          /\ pc = "unexpected_error" => exit_status = 1
          /\ pc \in {"convert_milestones", "convert_tickets", "unexpected_error"} =>
                DOMAIN files = {} /\ dirs = {}
    /\ Converted =>
          \A k \in DOMAIN ghs :
              /\ SourceOf(ghs[k].ticket).milestone_id # 0 =>
                    "milestone" \in DOMAIN ghs[k].ticket
              /\ "milestone" \in DOMAIN ghs[k].ticket =>
                    \E m \in DOMAIN ghms : ghms[m].number = ghs[k].ticket.milestone

C10_Witness ==
    /\ pc = "unexpected_error"
    /\ exit_status = 1
    /\ ghs # <<>>
    /\ \E n \in DOMAIN lhs : DanglingMilestone(n)
    /\ DOMAIN files = {}

====
